---- MODULE Spec2Model ----
(***************************************************************************)
(* The flux repository scanner of rust-scripts.                            *)
(*                                                                         *)
(*   src/src/bin/flux-validator.rs   one scan loop with a rotation ledger  *)
(*                                   (prog = "validator")                  *)
(*   src/src/main.rs                 one scan loop without a ledger        *)
(*                                   (prog = "main")                       *)
(*   src/src/flux.rs                 the passes get_kms_keys,              *)
(*                                   get_dup_documents, rotate_kms_keys    *)
(*                                   (prog = the name of the pass)         *)
(*                                                                         *)
(* The external tool (sops) is seen through Command::output(): Ok whatever *)
(* the exit status ("ok", "exit_failure"), Err only when the process       *)
(* cannot be run ("spawn_error").  decCalls, encCalls, encNoPath, decRes   *)
(* and encRes record the invocations; the programs never read them.        *)
(* Failures of glob and of File::open are left out.                        *)
(***************************************************************************)
EXTENDS Integers, Sequences, FiniteSets, TLC

VARIABLES
    prog,       \* the entry point that runs: "validator", "main", or one of
                \* the library passes "get_kms_keys", "get_dup_documents",
                \* "rotate_kms_keys"
    rotate,     \* args.rotate
    fs,         \* file system: path -> sequence of raw YAML documents
    paths,      \* the file list (glob result, or the `paths` argument)
    pc,         \* position in the program
    idx,        \* index in `paths` of the file being processed (0: none yet)
    buf,        \* documents of the current file not yet deserialized
    d,          \* the current Document: <<>> or <<doc>>
    keys_used,  \* HashMap<String, HashSet<PathBuf>>
    documents,  \* HashMap<Document, HashSet<PathBuf>>
    rotated,    \* HashSet<PathBuf>, the rotation ledger
    decCalls,   \* path -> number of `sops -d -i path` invocations
    encCalls,   \* path -> number of `sops -e -i ... path` invocations
    encNoPath,  \* path -> number of `sops -e -i` invocations issued while on
                \* it whose argument list names no file
    decRes,     \* path -> outcome of the last decrypt invocation on it
    encRes,     \* path -> outcome of the last encrypt issued while on it
    result,     \* "running", "ok", "parse_error", "io_error" or "panic"
    dup_tree,   \* the branches of the "duped documents" tree
    key_tree    \* the branches of the "kms_keys" tree

vars == <<prog, rotate, fs, paths, pc, idx, buf, d, keys_used, documents,
          rotated, decCalls, encCalls, encNoPath, decRes, encRes, result,
          dup_tree, key_tree>>

----------------------------------------------------------------------------
(* Bounds and input universe *)

\* Largest number of YAML documents in the whole directory.
MaxTotalDocs == 3

\* The files the glob **/*-sops.yml finds, in the order it yields them.
GlobResult == <<"a-sops.yml", "b-sops.yml">>

Paths == {GlobResult[i] : i \in 1..Len(GlobResult)}

K1 == "arn:aws:kms:1"
K2 == "arn:aws:kms:2"

\* Option<T>: None is <<>>, Some(x) is <<x>>.
None == <<>>
Some(x) == <<x>>

\* A raw YAML document: each field may be missing; sops, when present, holds
\* the list of arns of its kms entries.
RawBase == [kind |-> Some("Deployment"), name |-> Some("web"),
            namespace |-> Some("prod"), sops |-> Some(<<K1>>)]

RawDocs ==
    { RawBase,
      [RawBase EXCEPT !.sops = None],               \* not encrypted
      [RawBase EXCEPT !.sops = Some(<<K2>>)],       \* another key
      [RawBase EXCEPT !.sops = Some(<<K1, K2>>)],   \* two kms entries
      [RawBase EXCEPT !.namespace = None],
      [RawBase EXCEPT !.kind = Some("Service")],
      [RawBase EXCEPT !.name = Some("api")],
      [RawBase EXCEPT !.name = None] }              \* metadata.name missing

SeqsUpTo(S, n) == UNION {[1..k -> S] : k \in 0..n}

\* The file lists a caller of the library may pass: any order, repeats allowed.
PathLists == SeqsUpTo(Paths, Len(GlobResult))

ToolOutcomes == {"ok", "exit_failure", "spawn_error"}

EmptyMap == [x \in {} |-> {}]

----------------------------------------------------------------------------
(* Pure parts *)

\* Document::deserialize: kind and metadata.name are required, namespace and
\* sops are optional, and of sops only .kms.[0].arn is kept.
Deserialize(raw) ==
    IF raw.kind = None \/ raw.name = None
    THEN [ok |-> FALSE, doc |-> None]
    ELSE [ok |-> TRUE,
          doc |-> Some([kind |-> raw.kind[1],
                        meta |-> [name |-> raw.name[1],
                                  namespace |-> raw.namespace],
                        sops |-> IF raw.sops = None THEN None
                                 ELSE Some([arn |-> raw.sops[1][1]])])]

has_sops(doc) == doc.sops # None

get_arn(doc) == doc.sops[1].arn

\* Faulty variant: a key already found gets the set {path}.
KeysInsertReplace(keys, arn, path) ==
    IF arn \in DOMAIN keys
    THEN [keys EXCEPT ![arn] = {path}]
    ELSE keys @@ (arn :> {path})

\* keys_used.get_mut(arn) / insert: add path to the set of files using arn.
KeysInsert(keys, arn, path) ==
    IF arn \in DOMAIN keys
    THEN [keys EXCEPT ![arn] = @ \cup {path}]
    ELSE keys @@ (arn :> {path})

\* Faulty variant: an equality on Document that leaves sops out.
DocsInsertIgnoreSops(docs, doc, path) ==
    LET k == [doc EXCEPT !.sops = None] IN
    IF k \in DOMAIN docs
    THEN [docs EXCEPT ![k] = @ \cup {path}]
    ELSE docs @@ (k :> {path})

\* documents.get_mut(&d) / insert: add path to the set of files holding d.
\* The derived Eq and Hash compare kind, meta and sops.
DocsInsert(docs, doc, path) ==
    IF doc \in DOMAIN docs
    THEN [docs EXCEPT ![doc] = @ \cup {path}]
    ELSE docs @@ (doc :> {path})

\* Faulty variant: the ledger is never written.
LedgerInsertNothing(ledger, path) == ledger

\* rotated.insert(path): the ledger after the insertion.
LedgerInsert(ledger, path) == ledger \cup {path}

\* Faulty variant: the filter `path.len() < 1`.
DupTreeKeepSingles(docs) ==
    {[doc |-> g, name |-> g.meta.name, files |-> docs[g]] :
        g \in {x \in DOMAIN docs : ~(Cardinality(docs[x]) < 1)}}

\* The "duped documents" tree: one branch per group that passes
\* `if path.len() <= 1 { continue }`.
DupTree(docs) ==
    {[doc |-> g, name |-> g.meta.name, files |-> docs[g]] :
        g \in {x \in DOMAIN docs : ~(Cardinality(docs[x]) <= 1)}}

\* The "kms_keys" tree: one branch per key with its files.
KeyTree(keys) == {[key |-> k, files |-> keys[k]] : k \in DOMAIN keys}

----------------------------------------------------------------------------
(* src/src/flux.rs: the read-only passes, as functions of the file system *)

\* The inner loop of get_kms_keys over the documents of one file; a document
\* that does not deserialize ends the pass with Err.
RECURSIVE KmsFile(_, _, _)
KmsFile(docs, path, keys) ==
    IF docs = <<>> THEN [ok |-> TRUE, val |-> keys]
    ELSE LET r == Deserialize(Head(docs)) IN
         IF ~r.ok THEN [ok |-> FALSE, val |-> EmptyMap]
         ELSE KmsFile(Tail(docs), path,
                      IF has_sops(r.doc[1])
                      THEN KeysInsert(keys, get_arn(r.doc[1]), path)
                      ELSE keys)

\* Faulty variant: the pass reads only the first document of each file.
RECURSIVE KmsPathsFirstDocument(_, _)
KmsPathsFirstDocument(ps, keys) ==
    IF ps = <<>> THEN [ok |-> TRUE, val |-> keys]
    ELSE LET all == fs[Head(ps)]
             r == KmsFile(IF all = <<>> THEN <<>> ELSE <<Head(all)>>,
                          Head(ps), keys)
         IN IF ~r.ok THEN r ELSE KmsPathsFirstDocument(Tail(ps), r.val)

get_kms_keys_first_document(ps) == KmsPathsFirstDocument(ps, EmptyMap)

RECURSIVE KmsPaths(_, _)
KmsPaths(ps, keys) ==
    IF ps = <<>> THEN [ok |-> TRUE, val |-> keys]
    ELSE LET r == KmsFile(fs[Head(ps)], Head(ps), keys)
         IN IF ~r.ok THEN r ELSE KmsPaths(Tail(ps), r.val)

get_kms_keys(ps) == KmsPaths(ps, EmptyMap)

RECURSIVE DupFile(_, _, _)
DupFile(docs, path, groups) ==
    IF docs = <<>> THEN [ok |-> TRUE, val |-> groups]
    ELSE LET r == Deserialize(Head(docs)) IN
         IF ~r.ok THEN [ok |-> FALSE, val |-> EmptyMap]
         ELSE DupFile(Tail(docs), path, DocsInsert(groups, r.doc[1], path))

RECURSIVE DupPaths(_, _)
DupPaths(ps, groups) ==
    IF ps = <<>> THEN [ok |-> TRUE, val |-> groups]
    ELSE LET r == DupFile(fs[Head(ps)], Head(ps), groups)
         IN IF ~r.ok THEN r ELSE DupPaths(Tail(ps), r.val)

get_dup_documents(ps) == DupPaths(ps, EmptyMap)

----------------------------------------------------------------------------
(* Initial states *)

\* The directory: a sequence of at most MaxTotalDocs documents cut into the
\* files of GlobResult.
Directories ==
    {[p \in Paths |->
        LET i == CHOOSE j \in 1..Len(GlobResult) : GlobResult[j] = p
            lo == IF i = 1 THEN 0 ELSE cut[i - 1]
            hi == IF i = Len(GlobResult) THEN Len(s) ELSE cut[i]
        IN [k \in 1..(hi - lo) |-> s[lo + k]]] :
      <<s, cut>> \in
        {sc \in SeqsUpTo(RawDocs, MaxTotalDocs) \X
                [1..(Len(GlobResult) - 1) -> 0..MaxTotalDocs] :
            /\ \A j \in DOMAIN sc[2] : sc[2][j] <= Len(sc[1])
            /\ \A j, k \in DOMAIN sc[2] : j <= k => sc[2][j] <= sc[2][k]}}

NoDirectory == [p \in Paths |-> <<>>]

InitCommon ==
    /\ idx = 0
    /\ buf = <<>>
    /\ d = None
    /\ keys_used = EmptyMap
    /\ documents = EmptyMap
    /\ rotated = {}
    /\ decCalls = [p \in Paths |-> 0]
    /\ encCalls = [p \in Paths |-> 0]
    /\ encNoPath = [p \in Paths |-> 0]
    /\ decRes = [p \in Paths |-> "none"]
    /\ encRes = [p \in Paths |-> "none"]
    /\ result = "running"
    /\ dup_tree = {}
    /\ key_tree = {}

\* The binaries scan what the glob yields; clap guarantees kms_arn when
\* rotate is set.
InitValidator ==
    /\ prog = "validator"
    /\ rotate \in BOOLEAN
    /\ fs \in Directories
    /\ paths = GlobResult
    /\ pc = "open"

InitMain ==
    /\ prog = "main"
    /\ rotate \in BOOLEAN
    /\ fs \in Directories
    /\ paths = GlobResult
    /\ pc = "open"

\* A library pass is called on a file list of the caller's choice.
\* rotate_kms_keys never opens a file, so one directory stands for all.
InitLibrary ==
    /\ paths \in PathLists
    /\ pc = "entry"
    /\ \/ /\ prog \in {"get_kms_keys", "get_dup_documents"}
          /\ rotate = FALSE
          /\ fs \in Directories
       \/ /\ prog = "rotate_kms_keys"
          /\ rotate = TRUE
          /\ fs = NoDirectory

Init == InitCommon /\ (InitValidator \/ InitMain \/ InitLibrary)

----------------------------------------------------------------------------
(* Shared pieces of the two scan loops *)

path == paths[idx]

doc == d[1]

Finished == pc = "done"

\* for f in glob(..): open the next file, or leave the loop.  The YAML
\* deserializer reads the whole file when its first document is asked for.
OpenNext ==
    /\ prog \in {"validator", "main"} /\ pc = "open"
    /\ IF idx < Len(paths)
       THEN /\ idx' = idx + 1
            /\ buf' = fs[paths[idx + 1]]
            /\ pc' = "next_doc"
       ELSE /\ pc' = "report"
            /\ UNCHANGED <<idx, buf>>
    /\ UNCHANGED <<prog, rotate, fs, paths, d, keys_used, documents, rotated,
                   decCalls, encCalls, encNoPath, decRes, encRes, result,
                   dup_tree, key_tree>>

\* for s in Deserializer::from_reader(f): Document::deserialize(s)?
NextDocument ==
    /\ pc = "next_doc"
    /\ IF buf = <<>>
       THEN /\ pc' = "open"
            /\ UNCHANGED <<buf, d, result>>
       ELSE LET r == Deserialize(Head(buf)) IN
            IF r.ok
            THEN /\ d' = r.doc
                 /\ buf' = Tail(buf)
                 /\ pc' = "check"
                 /\ UNCHANGED result
            ELSE /\ result' = "parse_error"
                 /\ pc' = "done"
                 /\ UNCHANGED <<buf, d>>
    /\ UNCHANGED <<prog, rotate, fs, paths, idx, keys_used, documents,
                   rotated, decCalls, encCalls, encNoPath, decRes, encRes,
                   dup_tree, key_tree>>

\* The two trees built and printed after the loop; Ok(()).
Report ==
    /\ pc = "report"
    /\ key_tree' = KeyTree(keys_used)
    /\ dup_tree' = DupTree(documents)
    /\ result' = "ok"
    /\ pc' = "done"
    /\ UNCHANGED <<prog, rotate, fs, paths, idx, buf, d, keys_used,
                   documents, rotated, decCalls, encCalls, encNoPath, decRes,
                   encRes>>

----------------------------------------------------------------------------
(* src/src/bin/flux-validator.rs *)

\* if let Some(sops) = &d.sops { if args.rotate && rotated.insert(path) ..
\* The ledger insertion is the guard of the rotation: it comes first.
V_Check ==
    /\ prog = "validator" /\ pc = "check"
    /\ IF has_sops(doc) /\ rotate /\ path \notin rotated
       THEN /\ rotated' = LedgerInsert(rotated, path)
            /\ pc' = "decrypt"
       ELSE /\ pc' = "aggregate"
            /\ UNCHANGED rotated
    /\ UNCHANGED <<prog, rotate, fs, paths, idx, buf, d, keys_used,
                   documents, decCalls, encCalls, encNoPath, decRes, encRes,
                   result, dup_tree, key_tree>>

\* Command::new("sops").args(["-d", "-i", path]).output().unwrap()
V_Decrypt ==
    /\ prog = "validator" /\ pc = "decrypt"
    /\ \E o \in ToolOutcomes :
        /\ decCalls' = [decCalls EXCEPT ![path] = @ + 1]
        /\ decRes' = [decRes EXCEPT ![path] = o]
        /\ IF o = "spawn_error"
           THEN result' = "panic" /\ pc' = "done"
           ELSE pc' = "encrypt" /\ UNCHANGED result
    /\ UNCHANGED <<prog, rotate, fs, paths, idx, buf, d, keys_used,
                   documents, rotated, encCalls, encNoPath, encRes, dup_tree,
                   key_tree>>

\* Command::new("sops").args(["-e", "-i", "-k", kms_arn, path]).output().unwrap()
V_Encrypt ==
    /\ prog = "validator" /\ pc = "encrypt"
    /\ \E o \in ToolOutcomes :
        /\ encCalls' = [encCalls EXCEPT ![path] = @ + 1]
        /\ encRes' = [encRes EXCEPT ![path] = o]
        /\ IF o = "spawn_error"
           THEN result' = "panic" /\ pc' = "done"
           ELSE pc' = "aggregate" /\ UNCHANGED result
    /\ UNCHANGED <<prog, rotate, fs, paths, idx, buf, d, keys_used,
                   documents, rotated, decCalls, encNoPath, decRes, dup_tree,
                   key_tree>>

\* "Get the kms used in the directory" and "Get duped documents".
V_Aggregate ==
    /\ prog = "validator" /\ pc = "aggregate"
    /\ keys_used' = IF has_sops(doc)
                    THEN KeysInsert(keys_used, get_arn(doc), path)
                    ELSE keys_used
    /\ documents' = DocsInsert(documents, doc, path)
    /\ pc' = "next_doc"
    /\ UNCHANGED <<prog, rotate, fs, paths, idx, buf, d, rotated, decCalls,
                   encCalls, encNoPath, decRes, encRes, result, dup_tree,
                   key_tree>>

----------------------------------------------------------------------------
(* src/src/main.rs *)

\* if let Some(sops) = &d.sops { if !args.rotate { keys_used .. } else { .. } }
M_Check ==
    /\ prog = "main" /\ pc = "check"
    /\ IF ~has_sops(doc)
       THEN pc' = "dups" /\ UNCHANGED keys_used
       ELSE IF ~rotate
            THEN /\ keys_used' = KeysInsert(keys_used, get_arn(doc), path)
                 /\ pc' = "dups"
            ELSE pc' = "decrypt" /\ UNCHANGED keys_used
    /\ UNCHANGED <<prog, rotate, fs, paths, idx, buf, d, documents, rotated,
                   decCalls, encCalls, encNoPath, decRes, encRes, result,
                   dup_tree, key_tree>>

\* Command::new("sops").args(["-d", "-i", path]).output().map_err(Error::new)?
M_Decrypt ==
    /\ prog = "main" /\ pc = "decrypt"
    /\ \E o \in ToolOutcomes :
        /\ decCalls' = [decCalls EXCEPT ![path] = @ + 1]
        /\ decRes' = [decRes EXCEPT ![path] = o]
        /\ IF o = "spawn_error"
           THEN result' = "io_error" /\ pc' = "done"
           ELSE pc' = "encrypt" /\ UNCHANGED result
    /\ UNCHANGED <<prog, rotate, fs, paths, idx, buf, d, keys_used,
                   documents, rotated, encCalls, encNoPath, encRes, dup_tree,
                   key_tree>>

\* Command::new("sops").args(["-e", "-i", kms_arn]).output().map_err(..)?
\* The argument list holds the key and no file path.
M_Encrypt ==
    /\ prog = "main" /\ pc = "encrypt"
    /\ \E o \in ToolOutcomes :
        /\ encNoPath' = [encNoPath EXCEPT ![path] = @ + 1]
        /\ encRes' = [encRes EXCEPT ![path] = o]
        /\ IF o = "spawn_error"
           THEN result' = "io_error" /\ pc' = "done"
           ELSE pc' = "dups" /\ UNCHANGED result
    /\ UNCHANGED <<prog, rotate, fs, paths, idx, buf, d, keys_used,
                   documents, rotated, decCalls, encCalls, decRes, dup_tree,
                   key_tree>>

\* "Get duped documents"
M_Dups ==
    /\ prog = "main" /\ pc = "dups"
    /\ documents' = DocsInsert(documents, doc, path)
    /\ pc' = "next_doc"
    /\ UNCHANGED <<prog, rotate, fs, paths, idx, buf, d, keys_used, rotated,
                   decCalls, encCalls, encNoPath, decRes, encRes, result,
                   dup_tree, key_tree>>

----------------------------------------------------------------------------
(* src/src/flux.rs *)

L_GetKmsKeys ==
    /\ prog = "get_kms_keys" /\ pc = "entry"
    /\ LET r == get_kms_keys(paths) IN
        /\ keys_used' = r.val
        /\ result' = IF r.ok THEN "ok" ELSE "parse_error"
    /\ pc' = "done"
    /\ UNCHANGED <<prog, rotate, fs, paths, idx, buf, d, documents, rotated,
                   decCalls, encCalls, encNoPath, decRes, encRes, dup_tree,
                   key_tree>>

L_GetDupDocuments ==
    /\ prog = "get_dup_documents" /\ pc = "entry"
    /\ LET r == get_dup_documents(paths) IN
        /\ documents' = r.val
        /\ result' = IF r.ok THEN "ok" ELSE "parse_error"
    /\ pc' = "done"
    /\ UNCHANGED <<prog, rotate, fs, paths, idx, buf, d, keys_used, rotated,
                   decCalls, encCalls, encNoPath, decRes, encRes, dup_tree,
                   key_tree>>

\* rotate_kms_keys: for path in paths { .. }  Ok(())
L_RotateNext ==
    /\ prog = "rotate_kms_keys" /\ pc \in {"entry", "rotate_next"}
    /\ IF idx < Len(paths)
       THEN idx' = idx + 1 /\ pc' = "rotate_decrypt" /\ UNCHANGED result
       ELSE result' = "ok" /\ pc' = "done" /\ UNCHANGED idx
    /\ UNCHANGED <<prog, rotate, fs, paths, buf, d, keys_used, documents,
                   rotated, decCalls, encCalls, encNoPath, decRes, encRes,
                   dup_tree, key_tree>>

\* Command::new("sops").args(["-d", "-i", path]).output()?
L_RotateDecrypt ==
    /\ prog = "rotate_kms_keys" /\ pc = "rotate_decrypt"
    /\ \E o \in ToolOutcomes :
        /\ decCalls' = [decCalls EXCEPT ![path] = @ + 1]
        /\ decRes' = [decRes EXCEPT ![path] = o]
        /\ IF o = "spawn_error"
           THEN result' = "io_error" /\ pc' = "done"
           ELSE pc' = "rotate_encrypt" /\ UNCHANGED result
    /\ UNCHANGED <<prog, rotate, fs, paths, idx, buf, d, keys_used,
                   documents, rotated, encCalls, encNoPath, encRes, dup_tree,
                   key_tree>>

\* Command::new("sops").args(["-e", "-i", "-k", key, path]).output()?
L_RotateEncrypt ==
    /\ prog = "rotate_kms_keys" /\ pc = "rotate_encrypt"
    /\ \E o \in ToolOutcomes :
        /\ encCalls' = [encCalls EXCEPT ![path] = @ + 1]
        /\ encRes' = [encRes EXCEPT ![path] = o]
        /\ IF o = "spawn_error"
           THEN result' = "io_error" /\ pc' = "done"
           ELSE pc' = "rotate_next" /\ UNCHANGED result
    /\ UNCHANGED <<prog, rotate, fs, paths, idx, buf, d, keys_used,
                   documents, rotated, decCalls, encNoPath, decRes, dup_tree,
                   key_tree>>

----------------------------------------------------------------------------

Next ==
    \/ OpenNext
    \/ NextDocument
    \/ Report
    \/ V_Check
    \/ V_Decrypt
    \/ V_Encrypt
    \/ V_Aggregate
    \/ M_Check
    \/ M_Decrypt
    \/ M_Encrypt
    \/ M_Dups
    \/ L_GetKmsKeys
    \/ L_GetDupDocuments
    \/ L_RotateNext
    \/ L_RotateDecrypt
    \/ L_RotateEncrypt

Spec == Init /\ [][Next]_vars

\* flux-validator.rs and the library passes of flux.rs, without main.rs.
InitValidatorLib == InitCommon /\ (InitValidator \/ InitLibrary)

NextValidatorLib ==
    \/ OpenNext
    \/ NextDocument
    \/ Report
    \/ V_Check
    \/ V_Decrypt
    \/ V_Encrypt
    \/ V_Aggregate
    \/ L_GetKmsKeys
    \/ L_GetDupDocuments
    \/ L_RotateNext
    \/ L_RotateDecrypt
    \/ L_RotateEncrypt

SpecValidatorLib == InitValidatorLib /\ [][NextValidatorLib]_vars

----------------------------------------------------------------------------
(* What the claims speak of *)

Range(q) == {q[i] : i \in DOMAIN q}

Binaries == {"validator", "main"}

Failures == {"exit_failure", "spawn_error"}

\* The Documents of file p (of those of its raw documents that deserialize).
DocsOf(p) ==
    {Deserialize(fs[p][i]).doc[1] :
        i \in {j \in DOMAIN fs[p] : Deserialize(fs[p][j]).ok}}

AllParse(ps) ==
    \A p \in ps : \A i \in DOMAIN fs[p] : Deserialize(fs[p][i]).ok

\* How many documents of file p carry an encryption record with key k.
CountUnder(p, k) ==
    Cardinality({i \in DOMAIN fs[p] :
        /\ Deserialize(fs[p][i]).ok
        /\ has_sops(Deserialize(fs[p][i]).doc[1])
        /\ get_arn(Deserialize(fs[p][i]).doc[1]) = k})

EncryptedDocs(p) == {x \in DocsOf(p) : has_sops(x)}

\* Key identifier -> the files with at least one document under it.
ExpectedKeyUsage(ps) ==
    [k \in {get_arn(x) : x \in UNION {EncryptedDocs(p) : p \in ps}} |->
        {p \in ps : \E x \in EncryptedDocs(p) : get_arn(x) = k}]

\* Document identity -> the files with at least one document equal to it in
\* kind, metadata and encryption record.
SameIdentity(x, y) ==
    /\ x.kind = y.kind
    /\ x.meta.name = y.meta.name
    /\ x.meta.namespace = y.meta.namespace
    /\ x.sops = y.sops

ExpectedGroups(ps) ==
    [g \in UNION {DocsOf(p) : p \in ps} |->
        {p \in ps : \E x \in DocsOf(p) : SameIdentity(x, g)}]

ToolFailedOn(p) == decRes[p] \in Failures \/ encRes[p] \in Failures

\* Some decrypt or encrypt has been invoked.
ToolInvoked ==
    \E p \in Paths : decRes[p] # "none" \/ encRes[p] # "none"

\* The files a rotation has to rewrite.
NeedsRotation ==
    IF prog \in Binaries
    THEN {p \in Paths : EncryptedDocs(p) # {}}
    ELSE Range(paths)

OrdersOf(q) ==
    {r \in [DOMAIN q -> Range(q)] : \A i, j \in DOMAIN q : r[i] = r[j] => i = j}

----------------------------------------------------------------------------
(* Claims *)

\* C1: in a run with rotation enabled, every file with M >= 1 encrypted
\* documents has decrypt invoked exactly once and encrypt invoked exactly
\* once, whatever M (an encrypt issued for the file counts even when its
\* argument list leaves the path out).
C1_RotatesOncePerFile ==
    (prog \in Binaries /\ rotate /\ Finished /\ result = "ok") =>
        \A p \in Paths :
            EncryptedDocs(p) # {} =>
                decCalls[p] = 1 /\ encCalls[p] + encNoPath[p] = 1

\* C2 (as stated): a path in the ledger has already had both its decrypt
\* and its encrypt call performed.
C2_LedgerAfterRotation ==
    \A p \in rotated : decCalls[p] >= 1 /\ encCalls[p] >= 1

\* C2 (amended): the ledger insertion comes first, then decrypt, then
\* encrypt: a path whose decrypt has been invoked is in the ledger, and
\* encrypt has been invoked for a path at most as often as decrypt.
C2_LedgerBeforeRotation ==
    prog = "validator" =>
        \A p \in Paths :
            /\ decCalls[p] >= 1 => p \in rotated
            /\ encCalls[p] <= decCalls[p]

C2_Witness ==
    /\ prog = "validator"
    /\ \E p \in rotated : decCalls[p] = 1 /\ encCalls[p] = 1

\* C3: when the tool fails on the decrypt step of a file, encrypt is not
\* invoked for that file, and a failed decrypt or encrypt step never ends in
\* a run that reports success.
C3_ToolFailureAborts ==
    /\ \A p \in Paths :
         (decCalls[p] = 1 /\ decRes[p] \in Failures) => encRes[p] = "none"
    /\ (Finished /\ \E p \in Paths : ToolFailedOn(p)) => result # "ok"

\* C4: when the tool fails on file F, every other file that needs rotation
\* still has its decrypt and its encrypt issued before the run ends.
C4_FailureDoesNotAbortOthers ==
    (rotate /\ Finished /\ result # "parse_error") =>
        \A F \in Paths : \A G \in NeedsRotation \ {F} :
            ToolFailedOn(F) => decRes[G] # "none" /\ encRes[G] # "none"

\* C5: with or without rotation, a finished scan holds the key-usage mapping
\* and the duplicate groups of the documents it parsed: every encrypted
\* document's file is recorded under that document's key identifier.
C5_AggregationUnconditional ==
    (prog \in Binaries /\ Finished /\ result = "ok") =>
        /\ keys_used = ExpectedKeyUsage(Paths)
        /\ documents = ExpectedGroups(Paths)

\* C6: key aggregation maps each key identifier to exactly the set of files
\* with at least one document under it; documents without an encryption
\* record contribute no entry.
C6_KeyUsageIsExact ==
    (prog \in {"validator", "get_kms_keys"} /\ Finished /\ result = "ok") =>
        /\ DOMAIN keys_used =
             {k \in {K1, K2} : \E p \in Range(paths) : CountUnder(p, k) >= 1}
        /\ \A k \in DOMAIN keys_used :
             keys_used[k] = {p \in Range(paths) : CountUnder(p, k) >= 1}

C6_Witness ==
    /\ prog = "get_kms_keys" /\ Finished /\ result = "ok"
    /\ \E k \in DOMAIN keys_used : \E p \in keys_used[k] :
        /\ CountUnder(p, k) >= 2
        /\ \E x \in DocsOf(p) : ~has_sops(x)

\* C7: duplicate detection groups by kind, metadata and encryption record:
\* every document's file is in the group of that document, and a group holds
\* exactly the files with a document equal to it in all three.
C7_GroupsByFullIdentity ==
    (prog \in {"validator", "get_dup_documents"} /\ Finished /\ result = "ok")
    =>
        /\ \A p \in Range(paths) : \A x \in DocsOf(p) :
             x \in DOMAIN documents /\ p \in documents[x]
        /\ \A g \in DOMAIN documents :
             documents[g] =
               {p \in Range(paths) : \E x \in DocsOf(p) : SameIdentity(x, g)}

C7_Witness ==
    /\ prog = "get_dup_documents" /\ Finished /\ result = "ok"
    /\ \E g, h \in DOMAIN documents :
        /\ g.kind = h.kind /\ g.meta = h.meta /\ g.sops # h.sops
        /\ Cardinality(documents[g]) = 2
        /\ Cardinality(documents[h]) = 1

\* C8: the duplicate section of the report holds a group iff the group has
\* two or more distinct files, with the files of that group.
C8_ReportFiltersSingles ==
    (prog \in Binaries /\ Finished /\ result = "ok") =>
        /\ \A g \in DOMAIN documents :
             (Cardinality(documents[g]) >= 2) <=>
               (\E b \in dup_tree : b.doc = g /\ b.files = documents[g])
        /\ \A b \in dup_tree : b.doc \in DOMAIN documents

C8_Witness ==
    /\ prog = "validator" /\ Finished /\ result = "ok"
    /\ \E b \in dup_tree : Cardinality(b.files) = 2
    /\ \E g \in DOMAIN documents :
        Cardinality(documents[g]) = 1 /\ \A b \in dup_tree : b.doc # g

\* C9: no decrypt or encrypt is invoked before every file of the file list
\* has been read.
C9_RotationAfterReads ==
    (prog \in Binaries /\ ToolInvoked) => idx = Len(paths)

\* C10: with rotation disabled and every document parsing, the single scan
\* loop ends with the key-usage mapping and the unfiltered duplicate groups
\* that get_kms_keys and get_dup_documents return for the same files taken
\* in any order.
C10_LoopEqualsPasses ==
    (prog = "validator" /\ ~rotate /\ Finished /\ result = "ok") =>
        \A ps \in OrdersOf(paths) :
            /\ get_kms_keys(ps) = [ok |-> TRUE, val |-> keys_used]
            /\ get_dup_documents(ps) = [ok |-> TRUE, val |-> documents]

C10_Witness ==
    /\ prog = "validator" /\ ~rotate /\ Finished /\ result = "ok"
    /\ \A p \in Paths : fs[p] # <<>>
    /\ \E p \in Paths : Len(fs[p]) >= 2
    /\ \E k \in DOMAIN keys_used : Cardinality(keys_used[k]) = 2

====
